---- MODULE Spec2Model ----
(***************************************************************************)
(* GatorTrack (src/app.py): GitHub Classroom deadlines synchronised into   *)
(* students' Google Calendars.                                             *)
(*                                                                         *)
(* Text is modelled as tuples of one-character strings, so that lower(),   *)
(* replace(), startswith() and split() are computed character by           *)
(* character as Python computes them.                                      *)
(***************************************************************************)
EXTENDS Integers, Sequences, FiniteSets, TLC

\* ------------------------------------------------------------------ text

\* Python's None, where a record is expected.
None == [isNone |-> TRUE]

\* str.lower() on one character (the ASCII letters the model uses).
LowerChar(c) ==
    CASE c = "A" -> "a"
      [] c = "B" -> "b"
      [] c = "H" -> "h"
      [] c = "W" -> "w"
      [] c = "X" -> "x"
      [] OTHER -> c

\* str.lower()
str_lower(s) == [i \in 1..Len(s) |-> LowerChar(s[i])]

\* str.replace(old, new) for one-character old and new.
str_replace(s, old, new) == [i \in 1..Len(s) |-> IF s[i] = old THEN new ELSE s[i]]

\* str.startswith(prefix)
startswith(s, prefix) ==
    /\ Len(prefix) <= Len(s)
    /\ SubSeq(s, 1, Len(prefix)) = prefix

\* assignment["title"].lower().replace(" ", "-")
Slug(title) == str_replace(str_lower(title), " ", "-")

\* ------------------------------------------------------- the matcher

\* A mutated matcher: the last matching assignment wins, not the first.
RECURSIVE find_last(_, _, _)
find_last(repo_name, assignments, i) ==
    IF i < 1 THEN None
    ELSE IF startswith(repo_name, Slug(assignments[i].title)) THEN assignments[i]
    ELSE find_last(repo_name, assignments, i - 1)

find_from_last(repo_name, assignments, i) ==
    find_last(repo_name, assignments, Len(assignments))

\* The for loop of find_assignment_by_repo, from the i-th assignment on.
RECURSIVE find_loop(_, _, _)
find_loop(repo_name, assignments, i) ==
    IF i > Len(assignments) THEN None
    ELSE IF startswith(repo_name, Slug(assignments[i].title)) THEN assignments[i]
    ELSE find_loop(repo_name, assignments, i + 1)

find_from(repo_name, assignments, i) == find_loop(repo_name, assignments, i)

find_assignment_by_repo(repo_name, assignments) ==
    find_from(str_lower(repo_name), assignments, 1)

\* ------------------------------------------------------ more text

\* dict.get(name, default) on a JSON object (a record).
Accepted(assignment) ==
    IF "accepted" \in DOMAIN assignment THEN assignment.accepted ELSE 0

\* assignment.get("deadline"): None when the field is absent.
DeadlineOf(assignment) ==
    IF "deadline" \in DOMAIN assignment THEN assignment.deadline ELSE None

\* A Python string value s, where None is possible too.
Str(s) == [isNone |-> FALSE, str |-> s]

\* "c in s"
HasChar(s, c) == \E i \in 1..Len(s) : s[i] = c

\* str.replace(old, new) for a one-character old and any new.
RECURSIVE str_replace_with(_, _, _)
str_replace_with(s, old, new) ==
    IF s = <<>> THEN <<>>
    ELSE (IF Head(s) = old THEN new ELSE <<Head(s)>>)
         \o str_replace_with(Tail(s), old, new)

\* str.split(sep) for a one-character sep: the parts, left to right.
RECURSIVE split_loop(_, _, _)
split_loop(s, sep, part) ==
    IF s = <<>> THEN <<part>>
    ELSE IF Head(s) = sep THEN <<part>> \o split_loop(Tail(s), sep, <<>>)
    ELSE split_loop(Tail(s), sep, Append(part, Head(s)))

str_split(s, sep) == split_loop(s, sep, <<>>)

\* ------------------------------------------------- dates and times

IsDigit(c) == c \in {"0", "1", "2", "3", "4", "5", "6", "7", "8", "9"}

DigitVal(c) ==
    CASE c = "0" -> 0 [] c = "1" -> 1 [] c = "2" -> 2 [] c = "3" -> 3
      [] c = "4" -> 4 [] c = "5" -> 5 [] c = "6" -> 6 [] c = "7" -> 7
      [] c = "8" -> 8 [] c = "9" -> 9

AllDigits(s) == \A i \in 1..Len(s) : IsDigit(s[i])

RECURSIVE NumVal(_)
NumVal(s) ==
    IF s = <<>> THEN 0 ELSE NumVal(SubSeq(s, 1, Len(s) - 1)) * 10 + DigitVal(s[Len(s)])

IsLeap(y) == (y % 4 = 0 /\ y % 100 # 0) \/ y % 400 = 0

DaysInMonth(y, m) ==
    IF m = 2 THEN (IF IsLeap(y) THEN 29 ELSE 28)
    ELSE IF m \in {4, 6, 9, 11} THEN 30 ELSE 31

\* Days since 1970-01-01 of a civil date, and back (proleptic Gregorian).
DaysFromCivil(y, m, d) ==
    LET yy  == IF m <= 2 THEN y - 1 ELSE y
        era == yy \div 400
        yoe == yy - era * 400
        mp  == IF m > 2 THEN m - 3 ELSE m + 9
        doy == (153 * mp + 2) \div 5 + d - 1
        doe == yoe * 365 + yoe \div 4 - yoe \div 100 + doy
    IN  era * 146097 + doe - 719468

CivilFromDays(z) ==
    LET zz  == z + 719468
        era == zz \div 146097
        doe == zz - era * 146097
        yoe == (doe - doe \div 1460 + doe \div 36524 - doe \div 146096) \div 365
        doy == doe - (365 * yoe + yoe \div 4 - yoe \div 100)
        mp  == (5 * doy + 2) \div 153
        d   == doy - (153 * mp + 2) \div 5 + 1
        m   == IF mp < 10 THEN mp + 3 ELSE mp - 9
        y   == yoe + era * 400 + (IF m <= 2 THEN 1 ELSE 0)
    IN  [y |-> y, mo |-> m, d |-> d]

\* 0 = Sunday.
DayOfWeek(days) == (days + 4) % 7

\* The first Sunday on or after a day.
SundayOnOrAfter(days) == days + ((7 - DayOfWeek(days)) % 7)

\* pytz's America/New_York. pytz reads the zone's table of 32-bit transition
\* times, which starts on 1901-12-13 at 20:45:52 UTC and ends in 2037, and rounds
\* every offset to whole minutes. Before the table's first entry the zone is on
\* local mean time, 4 h 56 min behind UTC; after its last entry it stays on
\* standard time. In between, daylight time of year y starts at 07:00 UTC on
\*   the last Sunday of March      1918 to 1920,
\*   the last Sunday of April      1921 to 1941, 1946 to 1973 and 1976 to 1986,
\*   9 February                    1942 (war time, kept until 1945),
\*   6 January                     1974,
\*   23 February                   1975,
\*   the first Sunday of April     1987 to 2006,
\*   the second Sunday of March    2007 to 2037,
\* and ends at 06:00 UTC on
\*   the last Sunday of October    1918 to 1920 and 1955 to 2006,
\*   the last Sunday of September  1921 to 1941 and 1945 to 1954,
\*   the first Sunday of November  2007 to 2037.
\* There is no daylight time from 1902 to 1917.
DaylightStart(y) ==
    CASE y >= 2007          -> SundayOnOrAfter(DaysFromCivil(y, 3, 8))
      [] y \in 1987..2006   -> SundayOnOrAfter(DaysFromCivil(y, 4, 1))
      [] y = 1975           -> DaysFromCivil(y, 2, 23)
      [] y = 1974           -> DaysFromCivil(y, 1, 6)
      [] y = 1942           -> DaysFromCivil(y, 2, 9)
      [] y \in 1918..1920   -> SundayOnOrAfter(DaysFromCivil(y, 3, 25))
      [] OTHER              -> SundayOnOrAfter(DaysFromCivil(y, 4, 24))

DaylightEnd(y) ==
    CASE y >= 2007                        -> SundayOnOrAfter(DaysFromCivil(y, 11, 1))
      [] y \in 1921..1941 \/ y \in 1945..1954 -> SundayOnOrAfter(DaysFromCivil(y, 9, 24))
      [] OTHER                            -> SundayOnOrAfter(DaysFromCivil(y, 10, 25))

\* An instant is a day since 1970-01-01 and a second of that day, in UTC.
NotBefore(days, sec, day0, sec0) == days > day0 \/ (days = day0 /\ sec >= sec0)

\* y is the year of the instant's UTC date. War time ran without a break from
\* its start in 1942 to the end of daylight time in 1945.
InDaylightTime(days, sec, y) ==
    CASE y < 1918 \/ y > 2037 -> FALSE
      [] y \in 1943..1944     -> TRUE
      [] y = 1942             -> NotBefore(days, sec, DaylightStart(y), 7 * 3600)
      [] y = 1945             -> ~NotBefore(days, sec, DaylightEnd(y), 6 * 3600)
      [] OTHER                -> /\ NotBefore(days, sec, DaylightStart(y), 7 * 3600)
                                 /\ ~NotBefore(days, sec, DaylightEnd(y), 6 * 3600)

\* Before 1901-12-13T20:45:52Z, the first entry of the table pytz reads.
InLocalMeanTime(days, sec) ==
    ~NotBefore(days, sec, DaysFromCivil(1901, 12, 13), 20 * 3600 + 45 * 60 + 52)

\* The offset of Eastern time from UTC, in minutes, at an instant.
EasternOffsetMinutes(days, sec) ==
    IF InLocalMeanTime(days, sec) THEN -296
    ELSE IF InDaylightTime(days, sec, CivilFromDays(days).y) THEN -240
    ELSE -300

\* s[i:j] and s[i:i+1] of a Python string, indices from 0.
Slice(s, i, j) == SubSeq(s, i + 1, IF j < Len(s) THEN j ELSE Len(s))

CharAt(s, i) == IF i < Len(s) THEN s[i + 1] ELSE ""

\* The number that the n digits of s from index p stand for; -1 where s does
\* not have n digits there and the parser raises ValueError.
parse_digits(s, p, n) ==
    IF p + n <= Len(s) /\ AllDigits(Slice(s, p, p + n)) THEN NumVal(Slice(s, p, p + n))
    ELSE -1

Invalid == [ok |-> FALSE]

\* datetime.fromisoformat(s) of Python 3.11, which the interpreter runs in its C
\* implementation. ok is FALSE where it raises ValueError.
\*
\* The place of the character between the date and the time: after YYYY-MM-DD,
\* YYYYMMDD, YYYY-Www, YYYY-Www-D, YYYYWww or YYYYWwwD; -1 for an invalid string.
RECURSIVE DigitsEnd(_, _)
DigitsEnd(dtstr, idx) ==
    IF idx < Len(dtstr) /\ IsDigit(dtstr[idx + 1]) THEN DigitsEnd(dtstr, idx + 1) ELSE idx

BasicWeekSeparator(idx) == IF idx < 9 THEN idx ELSE IF idx % 2 = 0 THEN 7 ELSE 8

find_isoformat_datetime_separator(dtstr) ==
    IF Len(dtstr) = 7 THEN 7
    ELSE IF dtstr[5] = "-"
    THEN IF dtstr[6] = "W"
         THEN IF Len(dtstr) > 8 /\ dtstr[9] = "-"
              THEN IF Len(dtstr) = 9 THEN -1
                   ELSE IF Len(dtstr) > 10 /\ IsDigit(dtstr[11]) THEN 8 ELSE 10
              ELSE 8
         ELSE 10
    ELSE IF dtstr[5] = "W" THEN BasicWeekSeparator(DigitsEnd(dtstr, 7))
    ELSE 8

\* The day number of a date, 1 for 0001-01-01.
ymd2ord(y, m, d) == DaysFromCivil(y, m, d) + 719163

\* The day number of the Monday that starts ISO week 1 of a year.
WeekOneMonday(firstday, firstweekday) ==
    firstday - firstweekday + (IF firstweekday > 3 THEN 7 ELSE 0)

isoweek1monday(year) == WeekOneMonday(ymd2ord(year, 1, 1), (ymd2ord(year, 1, 1) + 6) % 7)

\* A year has a week 53 when it starts on a Thursday, or is a leap year and
\* starts on a Wednesday.
HasWeek53(year, first_weekday) == first_weekday = 4 \/ (first_weekday = 3 /\ IsLeap(year))

DateOf(c) == [ok |-> TRUE, y |-> c.y, mo |-> c.mo, d |-> c.d]

isoweek_to_gregorian(year, week, day) ==
    IF year \notin 1..9999 THEN Invalid
    ELSE IF ~(week \in 1..52 \/ (week = 53 /\ HasWeek53(year, ymd2ord(year, 1, 1) % 7)))
    THEN Invalid
    ELSE IF day \notin 1..7 THEN Invalid
    ELSE DateOf(CivilFromDays(isoweek1monday(year) + (week - 1) * 7 + (day - 1) - 719163))

\* The date after YYYY[-]W: the week and, where the date part goes on, the day
\* of the week. pos is the index after the week's digits.
WeekDate(dtstr, len, year, has_sep, pos) ==
    IF pos < len
    THEN IF has_sep = 1 /\ CharAt(dtstr, pos) # "-" THEN Invalid
         ELSE isoweek_to_gregorian(year, parse_digits(dtstr, pos - 2, 2),
                                   parse_digits(dtstr, pos + has_sep, 1))
    ELSE isoweek_to_gregorian(year, parse_digits(dtstr, pos - 2, 2), 1)

DateFields(year, month, day) ==
    IF year < 0 \/ month < 0 \/ day < 0 THEN Invalid
    ELSE [ok |-> TRUE, y |-> year, mo |-> month, d |-> day]

\* The date after YYYY[-]: the month and the day.
MonthDate(dtstr, year, has_sep, pos) ==
    IF has_sep = 1 /\ CharAt(dtstr, pos + 2) # "-" THEN Invalid
    ELSE DateFields(year, parse_digits(dtstr, pos, 2),
                    parse_digits(dtstr, pos + 2 + has_sep, 2))

DateAfterYear(dtstr, len, year, has_sep) ==
    IF year < 0 THEN Invalid
    ELSE IF CharAt(dtstr, 4 + has_sep) = "W"
    THEN WeekDate(dtstr, len, year, has_sep, 7 + has_sep)
    ELSE MonthDate(dtstr, year, has_sep, 4 + has_sep)

\* The date part: the first len characters of dtstr. The ranges of the month
\* and the day are checked when the datetime is constructed.
ParseDate(dtstr, len) ==
    DateAfterYear(dtstr, len, parse_digits(dtstr, 0, 4), IF dtstr[5] = "-" THEN 1 ELSE 0)

FractionCorrection(digits) ==
    CASE digits = 1 -> 100000 [] digits = 2 -> 10000 [] digits = 3 -> 1000
      [] digits = 4 -> 100 [] digits = 5 -> 10 [] digits = 6 -> 1

\* What a clock reading leaves behind it: 0 at the end of the string, 1 before
\* any other character.
Rest(c) == IF c = "" THEN 0 ELSE 1

TimeFields(comps, us, rest) ==
    IF us < 0 THEN Invalid
    ELSE [ok |-> TRUE, h |-> comps[1], mi |-> comps[2], s |-> comps[3], us |-> us,
          rest |-> rest]

\* The character at index p of the reading t, or the one that follows t.
CharOrNext(t, next, p) == IF p < Len(t) THEN t[p + 1] ELSE next

\* The fraction from index p of t: up to six digits are read and further digits
\* skipped.
Fraction(t, next, p, to_parse, comps) ==
    TimeFields(comps,
               IF AllDigits(Slice(t, p, p + to_parse))
               THEN NumVal(Slice(t, p, p + to_parse)) * FractionCorrection(to_parse)
               ELSE -1,
               Rest(CharOrNext(t, next, DigitsEnd(t, p + to_parse))))

fraction_from(t, next, p, comps) ==
    Fraction(t, next, p, IF Len(t) - p >= 6 THEN 6 ELSE Len(t) - p, comps)

\* parse_hh_mm_ss_ff: the reading t is HH[:?MM[:?SS[{.,}f+]]], and next is the
\* character that follows t in the string, "" at its end. i counts the hour, the
\* minute and the second, p is the index in t, c the character after the
\* two digits at p.
RECURSIVE clock_fields(_, _, _, _, _, _, _)
clock_fields(t, next, i, p, has_sep, c, comps) ==
    IF comps[i + 1] < 0 THEN Invalid
    ELSE IF p + 3 >= Len(t) THEN TimeFields(comps, 0, Rest(c))
    ELSE IF has_sep /\ c = ":"
    THEN IF i = 2 THEN fraction_from(t, next, p + 3, comps)
         ELSE clock_fields(t, next, i + 1, p + 3, has_sep, CharOrNext(t, next, p + 5),
                           [comps EXCEPT ![i + 2] = parse_digits(t, p + 3, 2)])
    ELSE IF c \in {".", ","} THEN fraction_from(t, next, p + 3, comps)
    ELSE IF ~has_sep
    THEN IF i = 2 THEN fraction_from(t, next, p + 2, comps)
         ELSE clock_fields(t, next, i + 1, p + 2, has_sep, CharOrNext(t, next, p + 4),
                           [comps EXCEPT ![i + 2] = parse_digits(t, p + 2, 2)])
    ELSE Invalid

parse_hh_mm_ss_ff(t, next) ==
    clock_fields(t, next, 0, 0, CharOrNext(t, next, 2) = ":", CharOrNext(t, next, 2),
                 <<parse_digits(t, 0, 2), 0, 0>>)

\* The index of the first "Z", "+" or "-" of the time, or its length.
RECURSIVE ZonePosition(_, _)
ZonePosition(tstr, p) ==
    IF p < Len(tstr) /\ tstr[p + 1] \notin {"Z", "+", "-"} THEN ZonePosition(tstr, p + 1)
    ELSE p

Utc == [ok |-> TRUE, aware |-> TRUE, off |-> 0, off_us |-> 0]

Naive == [ok |-> TRUE, aware |-> FALSE, off |-> 0, off_us |-> 0]

\* The zone of an offset of tzoffset seconds and tzusec microseconds: UTC where
\* the seconds are 0, and no zone at all for a day or more.
Zone(tzoffset, tzusec, sign) ==
    IF tzoffset = 0 THEN Utc
    ELSE IF tzoffset >= 86400 THEN Invalid
    ELSE [ok |-> TRUE, aware |-> TRUE, off |-> sign * tzoffset, off_us |-> sign * tzusec]

OffsetZone(c, sign) ==
    IF ~c.ok THEN Invalid
    ELSE IF c.rest # 0 THEN Invalid
    ELSE Zone(c.h * 3600 + c.mi * 60 + c.s, c.us, sign)

\* The zone of a time: none, "Z" at the end, or a sign and HH[:?MM[:?SS[{.,}f+]]].
\* Without a zone nothing may follow the clock reading.
ParseOffset(tstr, tz_pos, rest) ==
    IF tz_pos = Len(tstr) THEN (IF rest = 1 THEN Invalid ELSE Naive)
    ELSE IF tstr[tz_pos + 1] = "Z" THEN (IF tz_pos + 1 < Len(tstr) THEN Invalid ELSE Utc)
    ELSE OffsetZone(parse_hh_mm_ss_ff(Slice(tstr, tz_pos + 1, Len(tstr)), ""),
                    IF tstr[tz_pos + 1] = "-" THEN -1 ELSE 1)

TimeInZone(t, z) ==
    IF ~z.ok THEN Invalid
    ELSE [ok |-> TRUE, h |-> t.h, mi |-> t.mi, s |-> t.s, us |-> t.us,
          aware |-> z.aware, off |-> z.off, off_us |-> z.off_us]

ZoneOf(tstr, tz_pos, t) ==
    IF ~t.ok THEN Invalid ELSE TimeInZone(t, ParseOffset(tstr, tz_pos, t.rest))

TimeAndZone(tstr, tz_pos) ==
    ZoneOf(tstr, tz_pos, parse_hh_mm_ss_ff(Slice(tstr, 0, tz_pos), CharAt(tstr, tz_pos)))

\* The time part, after the separator.
ParseTime(tstr) == TimeAndZone(tstr, ZonePosition(tstr, 0))

Midnight == [ok |-> TRUE, h |-> 0, mi |-> 0, s |-> 0, us |-> 0,
             aware |-> FALSE, off |-> 0, off_us |-> 0]

\* datetime(year, month, day, hour, minute, second, microsecond, tzinfo), which
\* checks the range of every field.
Construct(date, time) ==
    IF ~date.ok \/ ~time.ok THEN Invalid
    ELSE IF \/ date.y \notin 1..9999 \/ date.mo \notin 1..12
            \/ date.d \notin 1..DaysInMonth(date.y, date.mo)
            \/ time.h > 23 \/ time.mi > 59 \/ time.s > 59
    THEN Invalid
    ELSE [ok |-> TRUE, y |-> date.y, mo |-> date.mo, d |-> date.d,
          h |-> time.h, mi |-> time.mi, s |-> time.s, us |-> time.us,
          aware |-> time.aware, off |-> time.off, off_us |-> time.off_us]

SplitAt(s, separator_location) ==
    IF separator_location < 0 THEN Invalid
    ELSE Construct(ParseDate(s, separator_location),
                   IF Len(s) > separator_location
                   THEN ParseTime(Slice(s, separator_location + 1, Len(s)))
                   ELSE Midnight)

fromisoformat(s) ==
    IF Len(s) < 7 THEN Invalid ELSE SplitAt(s, find_isoformat_datetime_separator(s))

\* A day, a second of the day and a microsecond, with the carries taken.
Carry(days, sec, us) ==
    [days |-> days + (sec + us \div 1000000) \div 86400,
     sec |-> (sec + us \div 1000000) % 86400, us |-> us % 1000000]

\* The instant of a parsed datetime, in UTC. A naive datetime is read in the
\* host's zone, taken to be UTC.
UtcInstant(dt) ==
    Carry(DaysFromCivil(dt.y, dt.mo, dt.d),
          dt.h * 3600 + dt.mi * 60 + dt.s - dt.off, dt.us - dt.off_us)

\* The fields of a local time that is off minutes from UTC, as isoformat()
\* prints them.
LocalFields(local, off) ==
    [date |-> CivilFromDays(local.days),
     h |-> local.sec \div 3600, mi |-> (local.sec % 3600) \div 60, s |-> local.sec % 60,
     us |-> local.us, off |-> off]

AtOffset(utc, off) == LocalFields(Carry(utc.days, utc.sec + off * 60, utc.us), off)

InEastern(utc) == AtOffset(utc, EasternOffsetMinutes(utc.days, utc.sec))

\* dt.astimezone(EASTERN_TZ), as the fields local_dt.isoformat() prints.
astimezone_eastern(dt) == InEastern(UtcInstant(dt))

\* The days of 0001-01-01 and 9999-12-31: datetime arithmetic that leaves them
\* raises OverflowError.
InDateRange(days) == days >= -719162 /\ days <= 2932896

AfterOffset(utc, off) == Carry(utc.days, utc.sec + off * 60, utc.us)

InstantOverflows(utc) ==
    \/ ~InDateRange(utc.days)
    \/ ~InDateRange(AfterOffset(utc, EasternOffsetMinutes(utc.days, utc.sec)).days)

astimezone_overflows(dt) == InstantOverflows(UtcInstant(dt))

\* datetime.now(EASTERN_TZ).strftime("%Y-%m-%d"), as the date's fields; t is
\* time() in seconds.
TodayEastern(t) == InEastern([days |-> t \div 86400, sec |-> t % 86400, us |-> 0]).date

\* "%Y-%m-%d" of a date's fields.
DigitChar(n) ==
    CASE n = 0 -> "0" [] n = 1 -> "1" [] n = 2 -> "2" [] n = 3 -> "3" [] n = 4 -> "4"
      [] n = 5 -> "5" [] n = 6 -> "6" [] n = 7 -> "7" [] n = 8 -> "8" [] n = 9 -> "9"

RECURSIVE Pad(_, _)
Pad(n, width) ==
    IF width = 0 THEN <<>> ELSE Append(Pad(n \div 10, width - 1), DigitChar(n % 10))

strftime_date(date) ==
    Pad(date.y, 4) \o <<"-">> \o Pad(date.mo, 2) \o <<"-">> \o Pad(date.d, 2)

\* ---------------------------------------------------- the event body

UtcSuffix == <<"+", "0", "0", ":", "0", "0">>

\* Lines 202-221 of create_or_update_event: the start and end of the event and
\* its body, at time t. raised is TRUE where fromisoformat raises ValueError or
\* astimezone OverflowError.
TimedStart(utc_dt) ==
    [dateTime |-> astimezone_eastern(utc_dt), timeZone |-> "America/New_York"]

EventBody(title, description, start) ==
    [raised |-> FALSE,
     body |-> [summary |-> title, description |-> description,
               start |-> start, end |-> start]]

TimedBody(title, description, utc_dt) ==
    IF ~utc_dt.ok THEN [raised |-> TRUE, error |-> "ValueError"]
    ELSE IF astimezone_overflows(utc_dt) THEN [raised |-> TRUE, error |-> "OverflowError"]
    ELSE EventBody(title, description, TimedStart(utc_dt))

build_event_body(title, description, deadline_iso, t) ==
    IF ~deadline_iso.isNone /\ deadline_iso.str # <<>>
    THEN IF HasChar(deadline_iso.str, "T")
         THEN TimedBody(title, description,
                        fromisoformat(str_replace_with(deadline_iso.str, "Z", UtcSuffix)))
         ELSE EventBody(title, description, [date |-> deadline_iso.str])
    ELSE EventBody(title, description, [date |-> strftime_date(TodayEastern(t))])

\* ------------------------------------------------------------ dicts

\* event_mapping is a dict: a set of entries, read and written by key.
dict_has(d, key) == \E e \in d : e.key = key

dict_get(d, key) == (CHOOSE e \in d : e.key = key).id

\* A mutated store: the entry is added and an older one for the key is kept.
dict_add(d, key, id) == d \cup {[key |-> key, id |-> id]}

dict_set(d, key, id) == {e \in d : e.key # key} \cup {[key |-> key, id |-> id]}

Range(seq) == {seq[i] : i \in 1..Len(seq)}

\* ------------------------------------------------------- the bounds

\* time() when the process starts: 2026-03-01T22:00:00Z.
StartTime == 1772402400
\* The clock advances in steps of TickStep seconds, up to MaxTicks times.
TickStep == 600
MaxTicks == 1
\* Webhooks and sweeps start while event_update_log is shorter than MaxLog.
MaxLog == 2
\* Handlers start while fewer than MaxInProgress of them are in progress.
MaxInProgress == 2
\* The longest title and repository name of the matcher's inputs.
MaxTitleLen == 2
MaxRepoLen == 3

\* The freshness window of assignment_cache, in seconds.
CacheWindow == 600

\* ---------------------------------------------------- the universe

al == <<"a", "l">>
bo == <<"b", "o">>
Usernames == {al, bo}

TitleHW1 == <<"H", "W", "1">>
TitleHW2 == <<"H", "W", " ", "2">>

DateMar1 == <<"2", "0", "2", "6", "-", "0", "3", "-", "0", "1">>
InstantMar1 ==
    <<"2", "0", "2", "6", "-", "0", "3", "-", "0", "1", "T",
      "2", "3", ":", "5", "9", ":", "0", "0", "Z">>

\* What the Classroom API may list: one accepted assignment and one that nobody
\* accepted (a count of 0, or no count); the deadline of the first changes; or
\* nothing at all.
Listings ==
    { << [title |-> TitleHW1, accepted |-> 1, deadline |-> Str(DateMar1)],
         [title |-> TitleHW2, accepted |-> 0, deadline |-> Str(DateMar1)] >>,
      << [title |-> TitleHW1, accepted |-> 1, deadline |-> Str(InstantMar1)],
         [title |-> TitleHW2, deadline |-> None] >>,
      << >> }

\* Repository names of webhook payloads.
RepoNames ==
    { <<"h", "w", "1", "-", "a", "l">>,
      <<"h", "w", "-", "2", "-", "a", "l">>,
      <<"h", "w", "1">>,
      <<"x", "-", "a", "l">> }

\* Webhook payloads: no repository, a repository without a name, a repository.
Payloads ==
    { [action |-> "ping"], [repository |-> [id |-> 1]] }
    \cup { [repository |-> [name |-> n]] : n \in RepoNames }

\* The handlers that run over several steps. The webhook runs on the event loop
\* (async def, line 271). sync_assignments runs on the scheduler's thread
\* ("sweep", line 356) and, in debug_force_sync, on a thread of the server's pool
\* ("force", line 401); debug_assignments runs on a thread of the pool as well
\* ("assignments", line 363). The threads and the event loop interleave.
Procs == {"webhook", "sweep", "force", "assignments"}
Sweepers == {"sweep", "force"}
DebugProcs == {"force", "assignments"}

\* ------------------------------------------------------- the state

VARIABLES
    user_tokens,       \* the dict's keys in insertion order (the values are credentials)
    assignment_cache,  \* [data, timestamp]
    event_mapping,     \* the dict (github_username, assignment_slug) -> event_id
    event_update_log,  \* the list of log entries
    now,               \* time()
    classroom,         \* what the Classroom API lists now
    calendar,          \* Google Calendar: event id -> event body
    env,               \* which upstream calls cannot fail
    proc,              \* where each handler stands, and its locals
    response,          \* what the last webhook returned
    debug_response,    \* what debug_force_sync and debug_assignments returned
    last_fetch,        \* when assignment_cache was last filled; None once it is cleared
    m_in, m_out        \* the matcher applied on its own: its input, its result

vars == <<user_tokens, assignment_cache, event_mapping, event_update_log, now,
          classroom, calendar, env, proc, response, debug_response, last_fetch,
          m_in, m_out>>

main_vars == <<user_tokens, assignment_cache, event_mapping, event_update_log, now,
               classroom, calendar, env, proc, response, debug_response, last_fetch>>

\* What no handler changes.
world == <<now, classroom, env, m_in, m_out>>

IdleProc ==
    [pc |-> "idle", assignments |-> None, repo |-> <<>>, user |-> <<>>,
     it_size |-> 0, ui |-> 0, ai |-> 0, call |-> None, error |-> "none", t |-> 0]

NoResponse == [cause |-> "none", status_code |-> 0, body |-> None]

MatchIdle == [isNone |-> TRUE]

MainInit ==
    /\ user_tokens = <<>>
    /\ assignment_cache = [data |-> None, timestamp |-> 0]
    /\ event_mapping = {}
    /\ event_update_log = <<>>
    /\ now = StartTime
    /\ calendar = <<>>
    /\ proc = [p \in Procs |-> IdleProc]
    /\ response = NoResponse
    /\ debug_response = [p \in DebugProcs |-> None]
    /\ last_fetch = None

Init ==
    /\ MainInit
    /\ classroom \in Listings
    /\ env = [classroom_ok |-> FALSE, calendar_ok |-> {}]
    /\ m_in = MatchIdle
    /\ m_out = MatchIdle

\* ---------------------------------------------------- the results

Respond(cause, status_code, body) ==
    response' = [cause |-> cause, status_code |-> status_code, body |-> body]

\* Line 276.
NotRepositoryResult == [message |-> "Not a repository event"]
\* Line 283.
InvalidNameResult == [error |-> "Invalid repository name format"]
\* A mutated result: an unconnected student is answered as a missing assignment.
NotConnectedAsNotFound == [error |-> "Assignment not found"]

\* Line 296.
NotConnectedResult == [status |-> "user_not_connected"]
\* Line 303.
NotFoundResult == [error |-> "Assignment not found"]
\* Line 306.
NotAcceptedResult == [message |-> "Assignment not accepted, skipping"]
\* Line 319.
SuccessResult(event_link) ==
    [status |-> "Assignment added/updated", event_link |-> event_link]
\* Lines 323 and 367: {"error": str(e)}; e stands for the exception's text.
FailureResult(e) == [error |-> e]

\* The htmlLink of the calendar's event id.
HtmlLink(id) == [htmlLink |-> id]

\* event_update_log[-n:].
LastEntries(log, n) == SubSeq(log, IF Len(log) > n THEN Len(log) - n + 1 ELSE 1, Len(log))

\* Lines 402-406: what debug_force_sync returns (the timestamp is left out).
ForceSyncResult(log) == [status |-> "sync_completed", updates |-> LastEntries(log, 10)]

\* A debug handler returns body.
DebugReturn(p, body) ==
    /\ proc' = [proc EXCEPT ![p] = [IdleProc EXCEPT !.pc = "respond"]]
    /\ debug_response' = [debug_response EXCEPT ![p] = [isNone |-> FALSE, body |-> body]]

\* An exception e raised in p. The webhook's except clause answers 400 (line 323),
\* a sync_assignments goes to its except clause (line 352), and debug_assignments
\* returns the error (line 367).
Raise(p, e) ==
    IF p = "webhook"
    THEN /\ proc' = [proc EXCEPT ![p] = [IdleProc EXCEPT !.pc = "respond"]]
         /\ Respond("failure", 400, FailureResult(e))
         /\ UNCHANGED debug_response
    ELSE IF p \in Sweepers
    THEN /\ proc' = [proc EXCEPT ![p].pc = "except", ![p].error = e, ![p].call = None]
         /\ UNCHANGED <<response, debug_response>>
    ELSE /\ DebugReturn(p, FailureResult(e))
         /\ UNCHANGED response

\* The webhook returns.
Return(cause, body) ==
    /\ proc' = [proc EXCEPT !["webhook"] = [IdleProc EXCEPT !.pc = "respond"]]
    /\ Respond(cause, 200, body)
    /\ UNCHANGED debug_response

\* ------------------------------------------ get_classroom_assignments

\* Python's truth value of assignment_cache["data"]: None and [] are false.
Truthy(data) == ~data.isNone /\ data.list # <<>>

\* Line 172, the second operand.
within_window(cache, t) == t - cache.timestamp < CacheWindow

\* Line 172 as a whole, for a cache that does not change while it is read.
cache_is_fresh(cache, t) == Truthy(cache.data) /\ within_window(cache, t)

\* New work starts while the log is short and few handlers are in progress, or
\* hold a response that was not read yet: the bounds of the model.
InProgress == {p \in Procs : proc[p].pc # "idle"}

MayStart == Len(event_update_log) < MaxLog /\ Cardinality(InProgress) < MaxInProgress

\* get_classroom_assignments returns data to p: the webhook matches the
\* repository, sync_assignments starts its loops, debug_assignments returns it.
Got(p, data) ==
    IF p = "webhook"
    THEN /\ proc' = [proc EXCEPT ![p].pc = "match", ![p].assignments = data, ![p].t = 0]
         /\ UNCHANGED <<response, debug_response>>
    ELSE IF p \in Sweepers
    THEN /\ proc' = [proc EXCEPT ![p].pc = "loop", ![p].assignments = data, ![p].t = 0]
         /\ UNCHANGED <<response, debug_response>>
    ELSE /\ DebugReturn(p, data)
         /\ UNCHANGED response

\* Line 172, the first operand: p, with the locals base, calls
\* get_classroom_assignments and reads assignment_cache["data"].
EnterGet(p, base) ==
    proc' = [proc EXCEPT ![p] = [base EXCEPT !.pc = IF Truthy(assignment_cache.data)
                                                       THEN "get_time" ELSE "fetch"]]

\* Line 172, the second operand: time() is called.
GetTime(p) ==
    /\ proc[p].pc = "get_time"
    /\ proc' = [proc EXCEPT ![p].pc = "get_ts", ![p].t = now]
    /\ UNCHANGED <<user_tokens, assignment_cache, event_mapping, event_update_log,
                   calendar, response, debug_response, last_fetch, world>>

\* Line 172, the second operand: assignment_cache["timestamp"] is read and
\* subtracted from the time.
GetTimestamp(p) ==
    /\ proc[p].pc = "get_ts"
    /\ proc' = [proc EXCEPT ![p].pc = IF within_window(assignment_cache, proc[p].t)
                                      THEN "get_ret" ELSE "fetch",
                            ![p].t = 0]
    /\ UNCHANGED <<user_tokens, assignment_cache, event_mapping, event_update_log,
                   calendar, response, debug_response, last_fetch, world>>

\* Line 173: assignment_cache["data"] is read again and returned.
GetReturn(p) ==
    /\ proc[p].pc = "get_ret"
    /\ Got(p, assignment_cache.data)
    /\ UNCHANGED <<user_tokens, assignment_cache, event_mapping, event_update_log,
                   calendar, last_fetch, world>>

\* A mutated failure: a failed Classroom call is answered from the stale cache.
FetchFailedStale(p) ==
    IF Truthy(assignment_cache.data) THEN Got(p, assignment_cache.data)
    ELSE Raise(p, "HTTPError")

\* Line 177: raise_for_status raises.
FetchFailed(p) == Raise(p, "HTTPError")

\* Lines 175-179: the Classroom call returns the listing, or it fails and
\* raise_for_status raises.
Fetch(p) ==
    /\ proc[p].pc = "fetch"
    /\ \E ok \in (IF env.classroom_ok THEN {TRUE} ELSE BOOLEAN) :
         IF ok
         THEN /\ proc' = [proc EXCEPT ![p].pc = "store_data",
                                      ![p].assignments = [isNone |-> FALSE, list |-> classroom]]
              /\ UNCHANGED <<response, debug_response>>
         ELSE FetchFailed(p)
    /\ UNCHANGED <<user_tokens, assignment_cache, event_mapping, event_update_log,
                   calendar, last_fetch, world>>

\* Line 180.
StoreData(p) ==
    /\ proc[p].pc = "store_data"
    /\ assignment_cache' = [assignment_cache EXCEPT !.data = proc[p].assignments]
    /\ proc' = [proc EXCEPT ![p].pc = "store_time"]
    /\ UNCHANGED <<user_tokens, event_mapping, event_update_log, calendar, response,
                   debug_response, last_fetch, world>>

\* Line 181, the right-hand side: time() is called.
StoreTime(p) ==
    /\ proc[p].pc = "store_time"
    /\ proc' = [proc EXCEPT ![p].pc = "store_ts", ![p].t = now]
    /\ UNCHANGED <<user_tokens, assignment_cache, event_mapping, event_update_log,
                   calendar, response, debug_response, last_fetch, world>>

\* Lines 181-182: the time is stored and the assignments are returned.
StoreTimestamp(p) ==
    /\ proc[p].pc = "store_ts"
    /\ assignment_cache' = [assignment_cache EXCEPT !.timestamp = proc[p].t]
    /\ last_fetch' = IF assignment_cache.data.isNone
                     THEN None
                     ELSE [isNone |-> FALSE, at |-> proc[p].t]
    /\ Got(p, proc[p].assignments)
    /\ UNCHANGED <<user_tokens, event_mapping, event_update_log, calendar, world>>

\* ---------------------------------------------- create_or_update_event

\* The exception of lines 204-205: ValueError of fromisoformat, OverflowError of
\* astimezone.
BuildError(built) == built.error

\* Lines 200-223: create_or_update_event is entered and the body is built, with
\* the date of today for an absent deadline (line 212); lines 204-205 may raise.
\* The mapping has not been looked up yet.
BeginReconcile(p, base, github_username, assignment, description) ==
    LET slug  == Slug(assignment.title)
        built == build_event_body(assignment.title, description,
                                  DeadlineOf(assignment), now)
        key   == <<github_username, slug>>
    IN  IF built.raised
        THEN Raise(p, BuildError(built))
        ELSE /\ proc' = [proc EXCEPT ![p] =
                   [base EXCEPT
                      !.pc = "check",
                      !.call = [isNone |-> FALSE,
                                op |-> "none",
                                key |-> key,
                                event_id |-> 0,
                                body |-> built.body,
                                deadline |-> DeadlineOf(assignment),
                                accepted |-> Accepted(assignment),
                                began |-> Len(event_update_log)]]]
             /\ UNCHANGED <<response, debug_response>>

\* Lines 225-226: the mapping is looked up; the calendar call is then in flight.
\* A key that is found stays in the dict, so the id read on line 226 is the id
\* of the key at that moment.
CheckMapping(p) ==
    /\ proc[p].pc = "check"
    /\ LET key == proc[p].call.key
       IN  proc' = [proc EXCEPT
                      ![p].pc = "call",
                      ![p].call.op = IF dict_has(event_mapping, key)
                                     THEN "update" ELSE "insert",
                      ![p].call.event_id = IF dict_has(event_mapping, key)
                                           THEN dict_get(event_mapping, key) ELSE 0]
    /\ UNCHANGED <<user_tokens, assignment_cache, event_mapping, event_update_log,
                   calendar, response, debug_response, last_fetch, world>>

\* The id the calendar gives its next event.
NextEventId == Len(calendar) + 1

\* A log entry (its timestamp is left out).
LogEntry(action, call, event_id) ==
    [action |-> action, user |-> call.key[1],
     assignment |-> call.key[2], deadline |-> call.deadline,
     event_id |-> event_id, event_link |-> HtmlLink(event_id)]

\* A mutated failure: the mapping is stored although the calendar call failed.
CallFailedMapped(p) ==
    /\ Raise(p, "HttpError")
    /\ event_mapping' = dict_set(event_mapping, proc[p].call.key, NextEventId)
    /\ UNCHANGED calendar

\* Lines 228-230 and 248: execute() raises.
CallFailed(p) ==
    /\ Raise(p, "HttpError")
    /\ UNCHANGED <<calendar, event_mapping>>

\* Lines 227-231 and 248: the calendar updates the event, or creates one and
\* gives it an id; or execute() raises.
Call(p) ==
    /\ proc[p].pc = "call"
    /\ LET c == proc[p].call IN
       \E ok \in (IF c.key[1] \in env.calendar_ok THEN {TRUE} ELSE BOOLEAN) :
         IF ~ok
         THEN CallFailed(p)
         ELSE IF c.op = "update"
         THEN /\ calendar' = [calendar EXCEPT ![c.event_id] = c.body]
              /\ proc' = [proc EXCEPT ![p].pc = "log"]
              /\ UNCHANGED <<event_mapping, response, debug_response>>
         ELSE /\ calendar' = Append(calendar, c.body)
              /\ proc' = [proc EXCEPT ![p].pc = "store_mapping",
                                      ![p].call.event_id = NextEventId]
              /\ UNCHANGED <<event_mapping, response, debug_response>>
    /\ UNCHANGED <<user_tokens, assignment_cache, event_update_log, last_fetch, world>>

\* Line 249.
StoreMapping(p) ==
    /\ proc[p].pc = "store_mapping"
    /\ event_mapping' = dict_set(event_mapping, proc[p].call.key, proc[p].call.event_id)
    /\ proc' = [proc EXCEPT ![p].pc = "log"]
    /\ UNCHANGED <<user_tokens, assignment_cache, event_update_log, calendar, response,
                   debug_response, last_fetch, world>>

\* "updated" after events().update(), "created" after events().insert().
ActionOf(op) == IF op = "update" THEN "updated" ELSE "created"

\* Lines 234-246 and 252-264: the log entry is appended and the link returned:
\* the webhook answers with it (line 319), sync_assignments goes on.
LogAppend(p) ==
    /\ proc[p].pc = "log"
    /\ event_update_log' =
          Append(event_update_log,
                 LogEntry(ActionOf(proc[p].call.op), proc[p].call, proc[p].call.event_id))
    /\ IF p = "webhook"
       THEN Return("success", SuccessResult(HtmlLink(proc[p].call.event_id)))
       ELSE /\ proc' = [proc EXCEPT ![p].pc = "loop", ![p].call = None]
            /\ UNCHANGED <<response, debug_response>>
    /\ UNCHANGED <<user_tokens, assignment_cache, event_mapping, calendar, last_fetch,
                   world>>

\* ---------------------------------------------------------- webhook

\* A mutated lookup: every student passes for connected.
connected_anyone(github_username, tokens) == TRUE

\* Lines 294-295: the student has stored credentials.
connected(github_username, tokens) == github_username \in Range(tokens)

\* Lines 271-299: the payload is read, the student is taken from the repository
\* name and looked up, and get_classroom_assignments is entered. A repository
\* without a name raises KeyError outside the try: the server answers 500.
WebhookReceive(data) ==
    /\ proc["webhook"].pc = "idle"
    /\ MayStart
    /\ IF "repository" \notin DOMAIN data
       THEN Return("not_repository", NotRepositoryResult)
       ELSE IF "name" \notin DOMAIN data.repository
       THEN /\ Respond("fault", 500, [detail |-> "Internal Server Error"])
            /\ proc' = [proc EXCEPT !["webhook"] = [IdleProc EXCEPT !.pc = "respond"]]
            /\ UNCHANGED debug_response
       ELSE LET repo_name       == data.repository.name
                repo_parts      == str_split(repo_name, "-")
                github_username == repo_parts[Len(repo_parts)]
            IN  IF Len(repo_parts) < 2
                THEN Return("no_identity", InvalidNameResult)
                ELSE IF ~connected(github_username, user_tokens)
                THEN Return("not_connected", NotConnectedResult)
                ELSE /\ EnterGet("webhook",
                                 [IdleProc EXCEPT !.repo = str_lower(repo_name),
                                                  !.user = github_username])
                     /\ UNCHANGED <<response, debug_response>>
    /\ UNCHANGED <<user_tokens, assignment_cache, event_mapping, event_update_log,
                   calendar, last_fetch, world>>

\* The response has been sent: the request is over.
WebhookReturn ==
    /\ proc["webhook"].pc = "respond"
    /\ proc' = [proc EXCEPT !["webhook"] = IdleProc]
    /\ response' = NoResponse
    /\ UNCHANGED <<user_tokens, assignment_cache, event_mapping, event_update_log,
                   calendar, debug_response, last_fetch, world>>

\* A mutated gate: an assignment nobody accepted passes.
accepted_gate_open(assignment) == Accepted(assignment) < 0

\* Lines 305 and 335: the assignment is skipped.
not_accepted(assignment) == Accepted(assignment) < 1

\* Lines 300-317: the assignment is matched and gated, and create_or_update_event
\* is entered for the pair. Assignments that are None cannot be iterated: line 187 raises
\* TypeError.
WebhookMatch ==
    /\ proc["webhook"].pc = "match"
    /\ IF proc["webhook"].assignments.isNone
       THEN Raise("webhook", "TypeError")
       ELSE LET w          == proc["webhook"]
                assignment == find_assignment_by_repo(w.repo, w.assignments.list)
            IN  IF assignment = None
                THEN Return("not_found", NotFoundResult)
                ELSE IF not_accepted(assignment)
                THEN Return("not_accepted", NotAcceptedResult)
                ELSE BeginReconcile("webhook", w, w.user, assignment,
                                    "GitHub Classroom assignment")
    /\ UNCHANGED <<user_tokens, assignment_cache, event_mapping, event_update_log,
                   calendar, last_fetch, world>>

\* ------------------------------------------------- sync_assignments

\* Lines 329-331: sync_assignments starts, on the scheduler's thread (line 356)
\* or in debug_force_sync (line 401).
SweepStart(p) ==
    /\ p \in Sweepers
    /\ proc[p].pc = "idle"
    /\ MayStart
    /\ EnterGet(p, IdleProc)
    /\ UNCHANGED <<user_tokens, assignment_cache, event_mapping, event_update_log,
                   calendar, response, debug_response, last_fetch, world>>

\* sync_assignments returns: the scheduler's job is over; debug_force_sync goes
\* on to its return statement (line 402).
SweepReturn(p) ==
    /\ proc' = [proc EXCEPT ![p] = IF p = "force" THEN [IdleProc EXCEPT !.pc = "return"]
                                   ELSE IdleProc]
    /\ UNCHANGED <<response, debug_response>>

\* Lines 334-336: the assignments after index ai that are not skipped.
LaterAccepted(assignments, ai) ==
    {j \in (ai + 1)..Len(assignments) : ~not_accepted(assignments[j])}

Least(S) == CHOOSE j \in S : \A k \in S : j <= k

\* Lines 334-339 for the student at index ui: the inner loop comes to the next
\* accepted assignment after ai and stands before the call of line 341, or the
\* student's assignments are finished.
InnerLoop(p, s, ui, ai) ==
    IF s.assignments.isNone
    THEN Raise(p, "TypeError")
    ELSE /\ proc' = [proc EXCEPT ![p] =
               IF LaterAccepted(s.assignments.list, ai) # {}
               THEN [s EXCEPT !.pc = "build", !.ui = ui,
                              !.ai = Least(LaterAccepted(s.assignments.list, ai))]
               ELSE [s EXCEPT !.ui = ui, !.ai = Len(s.assignments.list)]]
         /\ UNCHANGED <<response, debug_response>>

\* Line 333: the dict iterator gives the next student. It raises RuntimeError
\* when the dict has not the size it had when the iterator was made, and the loop
\* ends after the last student (line 350).
OuterLoop(p, s) ==
    IF Len(user_tokens) # s.it_size
    THEN Raise(p, "RuntimeError")
    ELSE IF s.ui + 1 > Len(user_tokens)
    THEN SweepReturn(p)
    ELSE InnerLoop(p, s, s.ui + 1, 0)

\* One step of the loops of lines 333-339: the inner loop goes on for the student
\* at hand; when it has finished, the outer loop takes the next student and the
\* inner loop starts for this one. The iterator is made in the first step.
SweepLoop(p) ==
    /\ p \in Sweepers
    /\ proc[p].pc = "loop"
    /\ IF proc[p].ui = 0
       THEN OuterLoop(p, [proc[p] EXCEPT !.it_size = Len(user_tokens)])
       ELSE IF LaterAccepted(proc[p].assignments.list, proc[p].ai) # {}
       THEN InnerLoop(p, proc[p], proc[p].ui, proc[p].ai)
       ELSE OuterLoop(p, proc[p])
    /\ UNCHANGED <<user_tokens, assignment_cache, event_mapping, event_update_log,
                   calendar, last_fetch, world>>

\* Lines 341-348: sync_assignments enters create_or_update_event for the pair at
\* hand, the student and the assignment its loops have taken.
SweepReconcile(p) ==
    /\ p \in Sweepers
    /\ proc[p].pc = "build"
    /\ BeginReconcile(p, proc[p], user_tokens[proc[p].ui],
                      proc[p].assignments.list[proc[p].ai],
                      "GitHub Classroom assignment (auto-sync)")
    /\ UNCHANGED <<user_tokens, assignment_cache, event_mapping, event_update_log,
                   calendar, last_fetch, world>>

\* Lines 352-353: the except clause of sync_assignments ends it.
SweepExcept(p) ==
    /\ p \in Sweepers
    /\ proc[p].pc = "except"
    /\ SweepReturn(p)
    /\ UNCHANGED <<user_tokens, assignment_cache, event_mapping, event_update_log,
                   calendar, last_fetch, world>>

\* Lines 402-406: debug_force_sync, its sync_assignments over, reads the last
\* entries of event_update_log and returns them.
debug_force_sync_return ==
    /\ proc["force"].pc = "return"
    /\ DebugReturn("force", ForceSyncResult(event_update_log))
    /\ UNCHANGED <<user_tokens, assignment_cache, event_mapping, event_update_log,
                   calendar, response, last_fetch, world>>

\* ------------------------------------------------- the other handlers

\* Lines 362-365: debug_assignments calls get_classroom_assignments.
debug_assignments ==
    /\ proc["assignments"].pc = "idle"
    /\ MayStart
    /\ EnterGet("assignments", IdleProc)
    /\ UNCHANGED <<user_tokens, assignment_cache, event_mapping, event_update_log,
                   calendar, response, debug_response, last_fetch, world>>

\* The response of a debug handler has been sent: the request is over.
DebugDone(p) ==
    /\ p \in DebugProcs
    /\ proc[p].pc = "respond"
    /\ proc' = [proc EXCEPT ![p] = IdleProc]
    /\ debug_response' = [debug_response EXCEPT ![p] = None]
    /\ UNCHANGED <<user_tokens, assignment_cache, event_mapping, event_update_log,
                   calendar, response, last_fetch, world>>

\* Lines 135-164: the OAuth callback stores the student's credentials. It runs on
\* the event loop, as the webhook does, so never while a webhook is in progress.
callback(github_username) ==
    /\ proc["webhook"].pc = "idle"
    /\ github_username \notin Range(user_tokens)
    /\ user_tokens' = Append(user_tokens, github_username)
    /\ UNCHANGED <<assignment_cache, event_mapping, event_update_log, calendar, proc,
                   response, debug_response, last_fetch, world>>

\* Lines 412-420: the global is bound to a new, empty cache.
debug_clear_cache ==
    /\ ~(assignment_cache.data.isNone /\ assignment_cache.timestamp = 0)
    /\ assignment_cache' = [data |-> None, timestamp |-> 0]
    /\ last_fetch' = None
    /\ UNCHANGED <<user_tokens, event_mapping, event_update_log, calendar, proc,
                   response, debug_response, world>>

\* Time passes.
Tick ==
    /\ now + TickStep <= StartTime + MaxTicks * TickStep
    /\ now' = now + TickStep
    /\ UNCHANGED <<user_tokens, assignment_cache, event_mapping, event_update_log,
                   classroom, calendar, env, proc, response, debug_response, last_fetch,
                   m_in, m_out>>

\* The teacher edits the classroom: the listing changes.
ClassroomEdit(listing) ==
    /\ listing # classroom
    /\ classroom' = listing
    /\ UNCHANGED <<user_tokens, assignment_cache, event_mapping, event_update_log,
                   now, calendar, env, proc, response, debug_response, last_fetch,
                   m_in, m_out>>

\* The steps inside get_classroom_assignments and create_or_update_event.
GetStep(p) ==
    \/ GetTime(p)
    \/ GetTimestamp(p)
    \/ GetReturn(p)
    \/ Fetch(p)
    \/ StoreData(p)
    \/ StoreTime(p)
    \/ StoreTimestamp(p)

ReconcileStep(p) ==
    \/ CheckMapping(p)
    \/ Call(p)
    \/ StoreMapping(p)
    \/ LogAppend(p)

Next ==
    \/ \E data \in Payloads : WebhookReceive(data)
    \/ WebhookMatch
    \/ WebhookReturn
    \/ \E p \in Sweepers : SweepStart(p)
    \/ \E p \in Sweepers : SweepLoop(p)
    \/ \E p \in Sweepers : SweepReconcile(p)
    \/ \E p \in Sweepers : SweepExcept(p)
    \/ debug_force_sync_return
    \/ debug_assignments
    \/ \E p \in DebugProcs : DebugDone(p)
    \/ \E p \in Procs : GetStep(p)
    \/ \E p \in Procs : ReconcileStep(p)
    \/ \E u \in Usernames : callback(u)
    \/ debug_clear_cache
    \/ Tick

Spec == Init /\ [][Next]_vars

\* -------------------------------------------- the matcher on its own

\* Sequences over chars of length at most n.
RECURSIVE Words(_, _)
Words(chars, n) ==
    IF n = 0 THEN {<<>>}
    ELSE LET shorter == Words(chars, n - 1)
         IN  shorter \cup {Append(w, c) : w \in shorter, c \in chars}

TitleChars == {"A", " ", "b"}
RepoChars == {"a", "-", "B"}

AssignmentTitled(title) == [title |-> title, accepted |-> 1]

\* The example of the specification: slugs hw1 and hw1-extra, in this order, and
\* the repository hw1-extra-alice.
ExampleTitles ==
    << <<"h", "w", "1">>, <<"h", "w", "1", "-", "e", "x", "t", "r", "a">> >>
ExampleRepo ==
    <<"h", "w", "1", "-", "e", "x", "t", "r", "a", "-", "a", "l", "i", "c", "e">>
ExampleInput ==
    [repo |-> ExampleRepo,
     assignments |-> [i \in 1..2 |-> AssignmentTitled(ExampleTitles[i])]]

\* Repository names, and lists of none, one or two assignments.
MatchInputs ==
    LET titles == Words(TitleChars, MaxTitleLen)
        lists  == {<<>>} \cup {<<AssignmentTitled(t)>> : t \in titles}
                  \cup {<<AssignmentTitled(t), AssignmentTitled(u)>> :
                            t \in titles, u \in titles}
    IN  {[repo |-> r, assignments |-> l] : r \in Words(RepoChars, MaxRepoLen), l \in lists}
        \cup {ExampleInput}

MatchInit ==
    /\ user_tokens = <<>>
    /\ assignment_cache = [data |-> None, timestamp |-> 0]
    /\ event_mapping = {}
    /\ event_update_log = <<>>
    /\ now = StartTime
    /\ classroom = <<>>
    /\ calendar = <<>>
    /\ proc = [p \in Procs |-> IdleProc]
    /\ response = NoResponse
    /\ debug_response = [p \in DebugProcs |-> None]
    /\ last_fetch = None
    /\ env = [classroom_ok |-> FALSE, calendar_ok |-> {}]
    /\ m_in \in MatchInputs
    /\ m_out = MatchIdle

\* find_assignment_by_repo is applied to the input.
MatchApply ==
    /\ m_out = MatchIdle
    /\ m_out' = [isNone |-> FALSE,
                 result |-> find_assignment_by_repo(m_in.repo, m_in.assignments)]
    /\ UNCHANGED <<main_vars, env, m_in>>

MatchNext == MatchApply

MatchSpec == MatchInit /\ [][MatchNext]_vars

\* ------------------------------------------------------------- C6

\* slug is a prefix of name: name is slug followed by something.
IsPrefixOf(slug, name) == \E k \in 0..Len(name) : SubSeq(name, 1, k) = slug

\* The indices of the assignments whose slug is a prefix of the lowercased
\* repository name.
PrefixHits(input) ==
    {i \in 1..Len(input.assignments) :
        IsPrefixOf(Slug(input.assignments[i].title), str_lower(input.repo))}

\* C6: find_assignment_by_repo returns the first assignment in listing order whose
\* slug is a prefix of the lowercased repository name, and None exactly when no
\* slug is such a prefix; with slugs [hw1, hw1-extra] and repository
\* hw1-extra-alice it returns hw1.
C6_MatcherFirstPrefix ==
    ~m_out.isNone =>
        /\ (PrefixHits(m_in) = {}) <=> (m_out.result = None)
        /\ PrefixHits(m_in) # {} =>
              \E i \in PrefixHits(m_in) :
                  /\ \A j \in PrefixHits(m_in) : i <= j
                  /\ m_out.result = m_in.assignments[i]
        /\ m_in = ExampleInput => m_out.result.title = ExampleTitles[1]

\* The example has been matched: both slugs are prefixes and the first was returned.
C6_Witness ==
    /\ ~m_out.isNone
    /\ m_in = ExampleInput
    /\ PrefixHits(m_in) = {1, 2}
    /\ m_out.result.title = ExampleTitles[1]

\* ------------------------------------------- the sweep under fairness

\* The classroom lists an accepted assignment and one nobody accepted. The
\* Classroom listing never fails, and the calendar calls of the students of
\* calendar_ok never fail; those of the others may fail every time.
LiveInit ==
    /\ MainInit
    /\ classroom \in {l \in Listings : \E i \in 1..Len(l) : l[i].deadline = Str(DateMar1)}
    /\ env \in {[classroom_ok |-> TRUE, calendar_ok |-> ok] : ok \in SUBSET Usernames}
    /\ m_in = MatchIdle
    /\ m_out = MatchIdle

\* The steps of sync_assignments on the scheduler's thread.
SweepStep ==
    \/ SweepStart("sweep")
    \/ SweepLoop("sweep")
    \/ SweepReconcile("sweep")
    \/ SweepExcept("sweep")
    \/ GetStep("sweep")
    \/ ReconcileStep("sweep")

LiveNext ==
    \/ SweepStep
    \/ \E u \in Usernames : callback(u)
    \/ Tick

\* The scheduler starts sync_assignments every 10 minutes and its thread runs on:
\* a sweep step that stays possible is taken.
LiveSpec == LiveInit /\ [][LiveNext]_vars /\ WF_vars(SweepStep)

\* ---------------------------- one pair, for every kind of deadline

\* Deadlines the Classroom API may give: ISO-8601 instants around the changes of
\* daylight time, with Z or an offset; dates; and strings that are neither.
InstantMar8Early ==
    <<"2", "0", "2", "6", "-", "0", "3", "-", "0", "8", "T", "0", "6", ":", "5", "9", ":", "0", "0", "Z">>
InstantMar8 ==
    <<"2", "0", "2", "6", "-", "0", "3", "-", "0", "8", "T", "0", "7", ":", "0", "0", ":", "0", "0", "Z">>
InstantNov1Early ==
    <<"2", "0", "2", "6", "-", "1", "1", "-", "0", "1", "T", "0", "5", ":", "5", "9", ":", "0", "0", "+", "0", "0", ":", "0", "0">>
InstantNov1 ==
    <<"2", "0", "2", "6", "-", "1", "1", "-", "0", "1", "T", "0", "6", ":", "0", "0", ":", "0", "0", "Z">>
InstantJul4 ==
    <<"2", "0", "2", "6", "-", "0", "7", "-", "0", "4", "T", "0", "2", ":", "3", "0", ":", "0", "0", "+", "0", "5", ":", "3", "0">>
InstantLeap ==
    <<"2", "0", "2", "4", "-", "0", "2", "-", "2", "9", "T", "2", "3", ":", "5", "9", ":", "0", "0", "-", "0", "5", ":", "0", "0">>
DateLeap == <<"2", "0", "2", "4", "-", "0", "2", "-", "2", "9">>
\* Instants in the basic format, as a week date (the Sunday of week 9 of 2026 is
\* March 1), and with a fraction of a second.
InstantBasic ==
    <<"2", "0", "2", "6", "0", "3", "0", "1", "T", "2", "3", "5", "9", "0", "0", "Z">>
InstantWeek ==
    <<"2", "0", "2", "6", "-", "W", "0", "9", "-", "7", "T", "1", "0", ":", "0", "0", ":", "0", "0", "+", "0", "0", ":", "0", "0">>
InstantFraction ==
    <<"2", "0", "2", "6", "-", "0", "3", "-", "0", "1", "T", "2", "3", ":", "5", "9", ":", "0", "0", ".", "5", "0", "0", "Z">>

\* Instants of other years: on local mean time (the first of them four minutes
\* into year 1 in New York), in the daylight time of 1920, which began on March
\* 28, in the war time of 1943, after the daylight time of 1950, which ended on
\* September 24, in the daylight time of 1974, which began on January 6, before
\* the daylight time of 1986, which began on April 27, and in the summer of 2038.
\* The last is the first instant of year 1 in UTC, which is 19:04 on the day
\* before in New York.
InstantYearOne ==
    <<"0", "0", "0", "1", "-", "0", "1", "-", "0", "1", "T", "0", "4", ":", "5", "9", ":", "5", "9", "Z">>
InstantMeanTime ==
    <<"1", "8", "0", "0", "-", "0", "1", "-", "0", "1", "T", "1", "2", ":", "0", "0", ":", "0", "0", "Z">>
Instant1920 ==
    <<"1", "9", "2", "0", "-", "0", "3", "-", "3", "0", "T", "1", "2", ":", "0", "0", ":", "0", "0", "Z">>
InstantWarTime ==
    <<"1", "9", "4", "3", "-", "0", "1", "-", "1", "5", "T", "1", "2", ":", "0", "0", ":", "0", "0", "Z">>
Instant1950 ==
    <<"1", "9", "5", "0", "-", "1", "0", "-", "1", "5", "T", "1", "2", ":", "0", "0", ":", "0", "0", "Z">>
Instant1974 ==
    <<"1", "9", "7", "4", "-", "0", "1", "-", "1", "0", "T", "1", "2", ":", "0", "0", ":", "0", "0", "Z">>
Instant1986 ==
    <<"1", "9", "8", "6", "-", "0", "4", "-", "1", "5", "T", "1", "2", ":", "0", "0", ":", "0", "0", "Z">>
Instant2038 ==
    <<"2", "0", "3", "8", "-", "0", "7", "-", "0", "4", "T", "1", "2", ":", "0", "0", ":", "0", "0", "Z">>
InstantYearOneEarly ==
    <<"0", "0", "0", "1", "-", "0", "1", "-", "0", "1", "T", "0", "0", ":", "0", "0", ":", "0", "0", "Z">>

\* Malformed deadlines: the empty string, a word without and one with a "T", a
\* date that is none, an instant that is none.
MalformedEmpty == <<>>
MalformedWord == <<"t", "o", "m", "o", "r", "r", "o", "w">>
MalformedWordT == <<"T", "u", "e", "s", "d", "a", "y">>
MalformedDate == <<"2", "0", "2", "6", "-", "1", "3", "-", "4", "5">>
MalformedInstant ==
    <<"2", "0", "2", "6", "-", "0", "3", "-", "0", "1", "T", "2", "5", ":", "0", "0", ":", "0", "0", "Z">>

InstantDeadlines ==
    {InstantMar1, InstantMar8Early, InstantMar8, InstantNov1Early, InstantNov1,
     InstantJul4, InstantLeap, InstantBasic, InstantWeek, InstantFraction,
     InstantYearOne, InstantMeanTime, Instant1920, InstantWarTime, Instant1950,
     Instant1974, Instant1986, Instant2038, InstantYearOneEarly}

DateDeadlines == {DateMar1, DateLeap}

MalformedDeadlines ==
    {MalformedEmpty, MalformedWord, MalformedWordT, MalformedDate, MalformedInstant}

\* What assignment.get("deadline") may be: a string, or None.
DeadlineInputs ==
    {Str(s) : s \in InstantDeadlines \cup DateDeadlines \cup MalformedDeadlines}
    \cup {None}

\* time() when the process starts, and four hours later: 2026-03-02T02:00:00Z,
\* which is still March 1 in New York.
StartTimes == {StartTime, StartTime + 4 * 3600}

\* One student is connected and the classroom lists one accepted assignment, with
\* any of the deadlines; the webhook and the sweep reconcile the pair.
ReconcileInit ==
    /\ user_tokens = <<al>>
    /\ assignment_cache = [data |-> None, timestamp |-> 0]
    /\ event_mapping = {}
    /\ event_update_log = <<>>
    /\ now \in StartTimes
    /\ classroom \in {<<[title |-> TitleHW1, accepted |-> 1, deadline |-> d]>> :
                          d \in DeadlineInputs}
    /\ calendar = <<>>
    /\ env = [classroom_ok |-> TRUE, calendar_ok |-> {}]
    /\ proc = [p \in Procs |-> IdleProc]
    /\ response = NoResponse
    /\ debug_response = [p \in DebugProcs |-> None]
    /\ last_fetch = None
    /\ m_in = MatchIdle
    /\ m_out = MatchIdle

ReconcileNext ==
    \/ WebhookReceive([repository |-> [name |-> <<"h", "w", "1", "-", "a", "l">>]])
    \/ WebhookMatch
    \/ WebhookReturn
    \/ SweepStep
    \/ GetStep("webhook")
    \/ ReconcileStep("webhook")

ReconcileSpec == ReconcileInit /\ [][ReconcileNext]_vars

\* ------------------------------------------------------- the claims

LogKey(entry) == <<entry.user, entry.assignment>>

\* The log entries of the pair key.
EntriesFor(log, key) == {i \in 1..Len(log) : LogKey(log[i]) = key}

Max(S) == CHOOSE i \in S : \A j \in S : j <= i

\* C1: when a webhook and a sweep reconcile the same (student, slug) pair
\* concurrently, the calendar is asked to create at most one event for the pair:
\* the log never holds two "created" entries of one pair.
C1_AtMostOneCreate ==
    \A i, j \in 1..Len(event_update_log) :
        /\ event_update_log[i].action = "created"
        /\ event_update_log[j].action = "created"
        /\ LogKey(event_update_log[i]) = LogKey(event_update_log[j])
        => i = j

\* C2: when the calendar call of a reconciliation of a pair succeeds, and the
\* last successful reconciliation of the pair ended before this one began, with
\* the same deadline, then the call is an update of the same event id with the
\* body the event has.
C2_Idempotence ==
    [][\A p \in Procs :
         LET c    == proc[p].call
             prev == EntriesFor(event_update_log, c.key)
             last == event_update_log[Max(prev)]
         IN  /\ proc[p].pc = "call"
             /\ proc'[p].pc \in {"log", "store_mapping"}
             /\ prev # {}
             /\ Max(prev) <= c.began
             /\ last.deadline = c.deadline
             => /\ c.op = "update"
                /\ c.event_id = last.event_id
                /\ c.body = calendar[last.event_id]
      ]_vars

\* C3: event_mapping holds at most one entry, so one event id, for any
\* (student, slug) pair.
C3_AtMostOneMapping ==
    \A e1, e2 \in event_mapping : e1.key = e2.key => e1 = e2

\* The webhook and the sweep have both created an event for one pair, and the
\* pair has a mapping.
C3_Witness ==
    \E i, j \in 1..Len(event_update_log) :
        /\ i # j
        /\ event_update_log[i].action = "created"
        /\ event_update_log[j].action = "created"
        /\ LogKey(event_update_log[i]) = LogKey(event_update_log[j])
        /\ dict_has(event_mapping, LogKey(event_update_log[i]))

\* The accepted pairs a sweep has not reached yet: those after user ui and
\* assignment ai, among the users the iterator was made for.
RemainingPairs(s) ==
    {ij \in (1..s.it_size) \X (1..Len(s.assignments.list)) :
        /\ ij[1] > s.ui \/ (ij[1] = s.ui /\ ij[2] > s.ai)
        /\ ~not_accepted(s.assignments.list[ij[2]])}

\* C4: a calendar error raised for one pair of a sweep does not end the sweep
\* while other pairs remain: a sweep that ends in its except clause on a calendar
\* error has no pair left.
C4_FailureIsolation ==
    \A p \in Sweepers :
        proc[p].pc = "except" /\ proc[p].error = "HttpError"
        => RemainingPairs(proc[p]) = {}

\* The slugs of the assignments that no listing gives an accepted count >= 1.
NeverAcceptedSlugs ==
    LET all == UNION {Range(l) : l \in Listings}
    IN  {Slug(a.title) : a \in all} \ {Slug(a.title) : a \in {b \in all : Accepted(b) >= 1}}

\* C5: for an assignment whose accepted count is 0 or missing, neither the webhook
\* nor the sweep issues a calendar call or adds a mapping: every reconciliation in
\* progress is for an assignment accepted at least once, and no mapping and no
\* log entry names a slug that was never accepted.
C5_AcceptedGating ==
    /\ \A p \in Procs : ~proc[p].call.isNone => proc[p].call.accepted >= 1
    /\ \A e \in event_mapping : e.key[2] \notin NeverAcceptedSlugs
    /\ \A i \in 1..Len(event_update_log) :
           event_update_log[i].assignment \notin NeverAcceptedSlugs

\* The webhook has answered that the assignment is not accepted, while a sweep
\* that listed an assignment nobody accepted has passed it for its first student
\* and reconciles its second.
C5_Witness ==
    /\ response.cause = "not_accepted"
    /\ \E p \in Sweepers :
           /\ proc[p].pc = "call"
           /\ proc[p].ui = 2
           /\ \E j \in 1..Len(proc[p].assignments.list) :
                  not_accepted(proc[p].assignments.list[j])

\* p calls get_classroom_assignments in this step.
EntersGet(p) == proc[p].pc = "idle" /\ proc'[p].pc \in {"get_time", "fetch"}

\* No other handler is inside get_classroom_assignments.
AloneInGet(p) ==
    \A q \in Procs \ {p} :
        proc[q].pc \notin {"get_time", "get_ts", "get_ret", "fetch", "store_data",
                           "store_time", "store_ts"}

\* C7: a call of get_classroom_assignments less than 600 seconds after the cache
\* was last filled (and not cleared since, no other call being in progress) issues
\* no Classroom call, whatever the list; a call whose time() is 600 seconds or
\* more after it issues one.
C7_CacheFreshness ==
    [][\A p \in Procs :
         ~last_fetch.isNone
         => /\ (EntersGet(p) /\ now - last_fetch.at < CacheWindow /\ AloneInGet(p))
               => proc'[p].pc # "fetch"
            /\ (proc[p].pc = "get_ts" /\ proc'[p].pc # "get_ts"
                /\ proc[p].t - last_fetch.at >= CacheWindow)
               => proc'[p].pc = "fetch"
      ]_vars

\* The slugs of the assignments the Classroom may list.
ListedSlugs == {Slug(a.title) : a \in UNION {Range(l) : l \in Listings}}

\* The listing holds an assignment of this slug that was accepted at least once.
AcceptedNow(slug) ==
    \E i \in 1..Len(classroom) :
        Slug(classroom[i].title) = slug /\ ~not_accepted(classroom[i])

\* No sweep runs and none can start any more: the log has reached the bound of
\* the model.
SweepsOver == ~MayStart /\ \A p \in Sweepers : proc[p].pc = "idle"

\* C8: while the sweep keeps firing, every connected student whose own calendar
\* calls succeed gets a mapping for every listed assignment accepted at least
\* once, whatever happens to the calendar calls of the other students.
C8_SweepLiveness ==
    \A u \in Usernames : \A slug \in ListedSlugs :
        (u \in Range(user_tokens) /\ u \in env.calendar_ok /\ AcceptedNow(slug))
        ~> (dict_has(event_mapping, <<u, slug>>) \/ SweepsOver)

\* A failure result, as the handlers of src/app.py mark one: an "error" member, or
\* a status of 400 and more.
IsErrorResult(r) == r.status_code >= 400 \/ "error" \in DOMAIN r.body

IsSuccessResult(r) == r.status_code = 200 /\ "event_link" \in DOMAIN r.body

\* C9: a payload that is no repository event, or a repository name without a
\* username segment, gets a no-op result: neither a success result nor a failure
\* (error) result.
C9_NoOpResult ==
    response.cause \in {"not_repository", "no_identity"}
    => ~IsErrorResult(response) /\ ~IsSuccessResult(response)

\* What a caller makes of a result, from the result alone.
Classify(r) ==
    IF r.status_code = 400 /\ DOMAIN r.body = {"error"} THEN "failure"
    ELSE IF r.status_code = 200 /\ r.body = [status |-> "user_not_connected"]
    THEN "not_connected"
    ELSE IF r.status_code = 200 /\ r.body = [error |-> "Assignment not found"]
    THEN "not_found"
    ELSE IF r.status_code = 200 /\ DOMAIN r.body = {"status", "event_link"}
            /\ r.body.status = "Assignment added/updated"
    THEN "success"
    ELSE "other"

\* C10: the results for 'student not authenticated', 'assignment not found',
\* 'upstream failure' and success are told apart from the result alone: a caller
\* that classifies the result finds the cause the webhook returned for, and takes
\* no other result for one of these four.
C10_FailuresDistinct ==
    response.cause # "none" =>
        IF response.cause \in {"failure", "not_connected", "not_found", "success"}
        THEN Classify(response) = response.cause
        ELSE Classify(response) = "other"

\* The webhook has answered 400 for a failed calendar call of a connected student,
\* after an event of the same student was created.
C10_Witness ==
    /\ response.cause = "failure"
    /\ response.body = FailureResult("HttpError")
    /\ event_update_log # <<>>

\* ------------------------------------------------------------ C11

\* The local time of New York, as local_dt.isoformat() prints it.
LocalTime(y, mo, d, h, mi, sec, us, off) ==
    [date |-> [y |-> y, mo |-> mo, d |-> d], h |-> h, mi |-> mi, s |-> sec, us |-> us,
     off |-> off]

\* What each instant is in New York, from the calendar. In 2026 daylight time runs
\* from March 8, 02:00 EST, to November 1, 02:00 EDT, and in 2038, by the same
\* rule, from March 14 to November 7. Until noon of 1883-11-18 New York kept local
\* mean time, 4 h 56 min behind UTC.
ExpectedLocal(instant) ==
    CASE instant = InstantMar1      -> LocalTime(2026, 3, 1, 18, 59, 0, 0, -300)
      [] instant = InstantMar8Early -> LocalTime(2026, 3, 8, 1, 59, 0, 0, -300)
      [] instant = InstantMar8      -> LocalTime(2026, 3, 8, 3, 0, 0, 0, -240)
      [] instant = InstantNov1Early -> LocalTime(2026, 11, 1, 1, 59, 0, 0, -240)
      [] instant = InstantNov1      -> LocalTime(2026, 11, 1, 1, 0, 0, 0, -300)
      [] instant = InstantJul4      -> LocalTime(2026, 7, 3, 17, 0, 0, 0, -240)
      [] instant = InstantLeap      -> LocalTime(2024, 2, 29, 23, 59, 0, 0, -300)
      [] instant = InstantBasic     -> LocalTime(2026, 3, 1, 18, 59, 0, 0, -300)
      [] instant = InstantWeek      -> LocalTime(2026, 3, 1, 5, 0, 0, 0, -300)
      [] instant = InstantFraction  -> LocalTime(2026, 3, 1, 18, 59, 0, 500000, -300)
      [] instant = InstantYearOne   -> LocalTime(1, 1, 1, 0, 3, 59, 0, -296)
      [] instant = InstantMeanTime  -> LocalTime(1800, 1, 1, 7, 4, 0, 0, -296)
      [] instant = Instant1920      -> LocalTime(1920, 3, 30, 8, 0, 0, 0, -240)
      [] instant = InstantWarTime   -> LocalTime(1943, 1, 15, 8, 0, 0, 0, -240)
      [] instant = Instant1950      -> LocalTime(1950, 10, 15, 7, 0, 0, 0, -300)
      [] instant = Instant1974      -> LocalTime(1974, 1, 10, 8, 0, 0, 0, -240)
      [] instant = Instant1986      -> LocalTime(1986, 4, 15, 7, 0, 0, 0, -300)
      [] instant = Instant2038      -> LocalTime(2038, 7, 4, 8, 0, 0, 0, -240)
      [] instant = InstantYearOneEarly -> LocalTime(0, 12, 31, 19, 4, 0, 0, -296)

\* The event time range the specification gives a well-formed or absent deadline:
\* all-day today (March 1 in New York at both start times), timed with end =
\* start, or all-day on the date.
ExpectedRange(deadline) ==
    IF deadline.isNone THEN [date |-> DateMar1]
    ELSE IF deadline.str \in InstantDeadlines
    THEN [dateTime |-> ExpectedLocal(deadline.str), timeZone |-> "America/New_York"]
    ELSE [date |-> deadline.str]

WellFormed(deadline) ==
    deadline.isNone \/ deadline.str \in InstantDeadlines \cup DateDeadlines

\* The exceptions of lines 204 and 205: fromisoformat's and astimezone's.
ConversionErrors == {"ValueError", "OverflowError"}

\* The reconciliation of a well-formed deadline has ended in p, or in the
\* webhook's answer, with an exception of the conversion.
ConversionFailed ==
    /\ \A i \in 1..Len(classroom) : WellFormed(DeadlineOf(classroom[i]))
    /\ \/ response.cause = "failure" /\ response.body \in {FailureResult(e) : e \in ConversionErrors}
       \/ \E p \in Sweepers : proc[p].pc = "except" /\ proc[p].error \in ConversionErrors

\* C11: the time range create_or_update_event builds is all-day on the date for a
\* date-only deadline, timed in America/New_York with end = start for an ISO-8601
\* instant, and all-day today for an absent deadline, on the webhook path and on
\* the sweep path alike; for none of these deadlines does the conversion fail.
C11_DeadlineNormalization ==
    /\ \A p \in Procs :
           ~proc[p].call.isNone /\ WellFormed(proc[p].call.deadline)
           => /\ proc[p].call.body.start = ExpectedRange(proc[p].call.deadline)
              /\ proc[p].call.body.end = proc[p].call.body.start
    /\ ~ConversionFailed

\* ------------------------------------------------------------ C12

Malformed(deadline) == ~deadline.isNone /\ deadline.str \in MalformedDeadlines

\* C12: a present but malformed deadline (the empty string included) makes the
\* reconciliation fail: no calendar call is issued for it, and no event is logged
\* or mapped with it.
C12_MalformedDeadline ==
    /\ \A p \in Procs : ~proc[p].call.isNone => ~Malformed(proc[p].call.deadline)
    /\ \A i \in 1..Len(event_update_log) : ~Malformed(event_update_log[i].deadline)
    /\ (\E i \in 1..Len(classroom) : Malformed(DeadlineOf(classroom[i])))
       => event_mapping = {}

\* ------------------------------------------------------------ C13

\* C13: once event_mapping holds an event id for a pair, no step removes the
\* entry or changes its event id.
C13_SyncedIsPermanent ==
    [][\A e \in event_mapping : e \in event_mapping']_vars

\* ------------------------------------------------------------ C14

\* p's Classroom call fails in this step.
FetchFails(p) == proc[p].pc = "fetch" /\ proc'[p].pc \notin {"fetch", "store_data"}

\* C14: when get_classroom_assignments finds no fresh cache and the Classroom call
\* fails, the failure propagates to the caller (the webhook answers it,
\* sync_assignments goes to its except clause, debug_assignments returns it), the
\* caller gets no assignment data, stale or not, and both fields of
\* assignment_cache stay as they were.
C14_CacheFailFast ==
    [][\A p \in Procs :
         FetchFails(p)
         => /\ assignment_cache' = assignment_cache
            /\ proc'[p].assignments = None
            /\ p = "webhook" => /\ proc'[p].pc = "respond"
                                /\ response'.cause = "failure"
                                /\ response'.body = FailureResult("HTTPError")
            /\ p \in Sweepers => proc'[p].pc = "except" /\ proc'[p].error = "HTTPError"
            /\ p = "assignments" => /\ proc'[p].pc = "respond"
                                    /\ debug_response'[p].body = FailureResult("HTTPError")
      ]_vars

\* A sweep's Classroom call has failed while the cache held stale assignments: the
\* sweep is in its except clause and the stale data is still cached.
C14_Witness ==
    \E p \in Sweepers :
        /\ proc[p].pc = "except"
        /\ proc[p].error = "HTTPError"
        /\ Truthy(assignment_cache.data)
        /\ now - assignment_cache.timestamp >= CacheWindow

\* ------------------------------------------------------------ C15

\* A pairing no writer makes: clear-cache writes no data with timestamp 0, and a
\* refetch writes a list with the time of the fetch, which is never 0.
TornCache(cache) == cache.data.isNone # (cache.timestamp = 0)

\* C15: a refetch replaces the data and the timestamp of the cache atomically: a
\* reader of the cache (line 172) never finds new data with the old timestamp, nor
\* the old data with the new timestamp.
C15_AtomicCacheReplacement ==
    [][\A p \in Procs : EntersGet(p) => ~TornCache(assignment_cache)]_vars

\* ------------------------------------------------------------ C16

\* p's calendar call fails in this step.
CallFails(p) ==
    /\ proc[p].pc = "call"
    /\ IF p = "webhook" THEN response'.cause = "failure" ELSE proc'[p].pc = "except"

\* p stores the mapping of the event the calendar created for it.
StoresCreated(p, e) ==
    /\ proc[p].pc = "store_mapping"
    /\ proc'[p].pc = "log"
    /\ proc[p].call.op = "insert"
    /\ proc[p].call.key = e.key
    /\ proc[p].call.event_id = e.id
    /\ e.id \in 1..Len(calendar)
    /\ calendar[e.id] = proc[p].call.body

\* C16: an entry of event_mapping is added only by a handler whose calendar create
\* for the pair has returned (the calendar holds the new event under the entry's
\* id), and a failed calendar create or update leaves event_mapping and
\* event_update_log unchanged.
C16_MappingOnlyOnSuccess ==
    [][/\ \A e \in event_mapping' \ event_mapping : \E p \in Procs : StoresCreated(p, e)
       /\ \A p \in Procs :
             CallFails(p) => /\ event_mapping' = event_mapping
                             /\ event_update_log' = event_update_log
      ]_vars

\* A sweep's calendar call for a mapped pair has failed, and a webhook's calendar
\* call has failed too: one entry is mapped and logged, no more.
C16_Witness ==
    /\ \E p \in Sweepers :
           /\ proc[p].pc = "except"
           /\ proc[p].error = "HttpError"
           /\ dict_has(event_mapping, <<user_tokens[proc[p].ui], Slug(TitleHW1)>>)
    /\ response.cause = "failure"
    /\ response.body = FailureResult("HttpError")
    /\ Cardinality(event_mapping) = 1
    /\ Len(event_update_log) = 1

\* ------------------------------------------------------------ C17

\* u is a key of the user_tokens dict.
HasCredential(u) == \E i \in 1..Len(user_tokens) : user_tokens[i] = u

\* C17: a webhook whose student has no stored credential returns the not-connected
\* result straight away, having issued no Classroom and no calendar call, and
\* leaves assignment_cache, event_mapping, event_update_log and the calendar as
\* they were: the webhook gets to an upstream call only for a student with a
\* credential.
C17_UnauthenticatedNoEffect ==
    [][/\ response'.cause = "not_connected" /\ response.cause # "not_connected"
          => /\ proc["webhook"].pc = "idle"
             /\ UNCHANGED <<assignment_cache, event_mapping, event_update_log,
                            calendar, last_fetch>>
       /\ proc'["webhook"].pc \notin {"idle", "respond"}
          => HasCredential(proc'["webhook"].user)
       /\ \A data \in Payloads :
             /\ proc["webhook"].pc = "idle" /\ proc'["webhook"].pc # "idle"
             /\ "repository" \in DOMAIN data
             /\ "name" \in DOMAIN data.repository
             /\ Len(str_split(data.repository.name, "-")) >= 2
             /\ ~HasCredential(str_split(data.repository.name, "-")
                                  [Len(str_split(data.repository.name, "-"))])
             /\ WebhookReceive(data)
             => response'.cause = "not_connected" /\ response'.body = NotConnectedResult
      ]_vars

\* The webhook has answered not-connected for a student without credentials while
\* another student's events are logged and the assignments are cached.
C17_Witness ==
    /\ response.cause = "not_connected"
    /\ response.body = NotConnectedResult
    /\ event_update_log # <<>>
    /\ event_mapping # {}
    /\ Truthy(assignment_cache.data)
    /\ Len(user_tokens) = 1

\* ------------------------------------------------------------ C18

\* C18: for every payload, a malformed one included, the webhook returns a
\* structured result: it never ends with an unhandled exception, which the server
\* answers with 500.
C18_WebhookNeverFaults ==
    response.cause # "fault" /\ response.status_code < 500

\* ------------------------------------- the webhook's student, on its own

\* GitHub usernames: one without a hyphen, one with, and the last segment of it.
al_x == <<"a", "l", "-", "x">>
ex == <<"x">>
ExtractUsers == {al, al_x, ex}

\* The repository GitHub Classroom makes for an assignment and a student.
RepoOf(title, github_username) == Slug(title) \o <<"-">> \o github_username

ExtractPayloads ==
    {[repository |-> [name |-> RepoOf(t, u)]] : t \in {TitleHW1, TitleHW2}, u \in ExtractUsers}

\* One or two of the students are connected, in any order.
ExtractInit ==
    /\ user_tokens \in {<<u>> : u \in ExtractUsers}
                       \cup {uv \in ExtractUsers \X ExtractUsers : uv[1] # uv[2]}
    /\ assignment_cache = [data |-> None, timestamp |-> 0]
    /\ event_mapping = {}
    /\ event_update_log = <<>>
    /\ now = StartTime
    /\ classroom \in Listings
    /\ calendar = <<>>
    /\ env \in {[classroom_ok |-> TRUE, calendar_ok |-> ok] : ok \in {{}, ExtractUsers}}
    /\ proc = [p \in Procs |-> IdleProc]
    /\ response = NoResponse
    /\ debug_response = [p \in DebugProcs |-> None]
    /\ last_fetch = None
    /\ m_in = MatchIdle
    /\ m_out = MatchIdle

ExtractNext ==
    \/ \E data \in ExtractPayloads : WebhookReceive(data)
    \/ WebhookMatch
    \/ WebhookReturn
    \/ GetStep("webhook")
    \/ ReconcileStep("webhook")

ExtractSpec == ExtractInit /\ [][ExtractNext]_vars

\* ------------------------------------------------------------ C19

\* C19: for a repository named <slug>-<username>, where the username is a connected
\* student's (with or without a hyphen in it) and the slug is that of an accepted
\* assignment, the webhook takes that student as the repository's and reconciles
\* the pair (that student, that slug).
C19_StudentExtraction ==
    [][\A u \in ExtractUsers : \A i \in 1..Len(classroom) :
         /\ HasCredential(u)
         /\ ~not_accepted(classroom[i])
         /\ WebhookReceive([repository |-> [name |-> RepoOf(classroom[i].title, u)]])
         => /\ response'.cause # "not_connected"
            /\ proc'["webhook"].pc \in {"get_time", "fetch"}
            /\ proc'["webhook"].user = u
      ]_vars

\* --------------------------------- a student connects during a sweep

cy == <<"c", "y">>

\* Two students are connected; a third completes the OAuth callback at any time,
\* on the event loop, while sync_assignments runs on the scheduler's thread and
\* the teacher edits the classroom.
ConnectInit ==
    /\ user_tokens = <<al, bo>>
    /\ assignment_cache = [data |-> None, timestamp |-> 0]
    /\ event_mapping = {}
    /\ event_update_log = <<>>
    /\ now = StartTime
    /\ classroom \in Listings
    /\ calendar = <<>>
    /\ env \in {[classroom_ok |-> ok, calendar_ok |-> {al, bo, cy}] : ok \in BOOLEAN}
    /\ proc = [p \in Procs |-> IdleProc]
    /\ response = NoResponse
    /\ debug_response = [p \in DebugProcs |-> None]
    /\ last_fetch = None
    /\ m_in = MatchIdle
    /\ m_out = MatchIdle

ConnectNext ==
    \/ SweepStep
    \/ callback(cy)
    \/ \E listing \in Listings : ClassroomEdit(listing)

ConnectSpec == ConnectInit /\ [][ConnectNext]_vars

\* ------------------------------------------------------------ C20

\* C20: a student who completes the OAuth callback while a sweep iterates
\* user_tokens does not abort the sweep: the sweep never ends on the dict
\* iterator's RuntimeError while a pair of a student known at its start is left.
C20_ConnectDuringSweep ==
    \A p \in Sweepers :
        proc[p].pc = "except" /\ proc[p].error = "RuntimeError"
        => RemainingPairs(proc[p]) = {}

====
